---- MODULE Spec2Model ----
(***************************************************************************)
(* Model of the build orchestrator in pavement.py: the resolver adapter    *)
(* get_dependency_list and the compile task (unified and modular mode).    *)
(*                                                                         *)
(* Strings are modelled as tuples of one-character strings so that the     *)
(* code's slicing (js_file[:-3]), indexing (line[0]) and formatting        *)
(* ('%s:%s%s', ','.join) are computed, not assumed.                        *)
(*                                                                         *)
(* The flags compile builds before it reaches the mode switch (lines       *)
(* 146-163: compilation level, jscomp lists, output wrapper, --debug and   *)
(* --externs) do not depend on the file lists; they are the constant       *)
(* prefix BaseFlags.                                                       *)
(***************************************************************************)
EXTENDS Integers, Sequences, FiniteSets, TLC

(***************************************************************************)
(* Bounds of the model.                                                    *)
(***************************************************************************)
MaxBundles == 3
MaxLines == 3

(***************************************************************************)
(* Strings.                                                                *)
(***************************************************************************)
Range(s) == {s[k] : k \in 1..Len(s)}

BoundedSeq(S, n) == UNION {[1..k -> S] : k \in 0..n}

IsInjective(s) == \A a, b \in 1..Len(s) : s[a] = s[b] => a = b

Digits == <<"0", "1", "2", "3", "4", "5", "6", "7", "8", "9">>

\* str(n) of a non-negative integer, as '%s' formats it.
RECURSIVE Str(_)
Str(n) == IF n < 10 THEN <<Digits[n + 1]>>
          ELSE Str(n \div 10) \o <<Digits[(n % 10) + 1]>>

\* sep.join(parts)
RECURSIVE join(_, _)
join(sep, parts) ==
    IF parts = <<>> THEN <<>>
    ELSE IF Len(parts) = 1 THEN parts[1]
    ELSE parts[1] \o sep \o join(sep, Tail(parts))

\* s[:-3]
DropLast3(s) == SubSeq(s, 1, Len(s) - 3)

(***************************************************************************)
(* The universe of inputs: entry-file names, lines the external resolver   *)
(* may print, and module declaration files.                                *)
(***************************************************************************)
Letters == <<"a", "b", "c", "d", "e", "f">>

JsSuffix == <<".", "j", "s">>

NameOf(k) == <<Letters[k]>> \o JsSuffix

Names == {NameOf(k) : k \in 1..MaxBundles}

\* options.src_dir.files('*.js'): the project's source files.
js_files == [k \in 1..MaxBundles |-> NameOf(k)]

F1 == <<"/", "1">>
F2 == <<"/", "2">>
F3 == <<"/", "3">>
F4 == <<"/", "4">>

BlankLine == <<>>

\* A diagnostic line of the resolver: it holds a '/', but not in front.
NoiseLine == <<"W", "/">>

Lines == {F1, F2, BlankLine, NoiseLine}

\* The closures of the three-bundle scenario of the specification, which
\* reach beyond the two paths of Lines.
ScenarioOutputs == {<<F1, F2, F3>>, <<F1, F4>>}

\* What the external resolver may print when it exits with status 0.
ResolverOutputs == BoundedSeq(Lines, MaxLines) \cup ScenarioOutputs

Reverse(s) == [k \in 1..Len(s) |-> s[Len(s) + 1 - k]]

\* Declared orders: every run of consecutive source files, forwards and
\* backwards (with AlphaDeps: dependencies declared earlier, later or not at
\* all), and one with a repeated entry.
Runs == {SubSeq(js_files, a, b) : a \in 1..MaxBundles, b \in 0..MaxBundles}

\* A declaration that lists its first entry file twice.
RepeatedOrder == <<NameOf(1), NameOf(1)>>

Orders == Runs \cup {Reverse(o) : o \in Runs} \cup {RepeatedOrder}

NoDeps == [n \in Names |-> <<>>]

\* Every entry file depends on all entry files before it in the alphabet.
ChainDeps == [k \in 1..MaxBundles |-> [j \in 1..(k - 1) |-> NameOf(j)]]

AlphaDeps == [n \in Names |-> ChainDeps[CHOOSE k \in 1..MaxBundles : NameOf(k) = n]]

\* A declaration whose "dependencies" object has no key for the first name.
PartialDeps == [n \in Names \ {NameOf(1)} |-> <<>>]

DepMaps == {NoDeps, AlphaDeps, PartialDeps}

ModuleInfos == {[order |-> o, dependencies |-> d] : o \in Orders, d \in DepMaps}

NoModuleInfo == [order |-> <<>>, dependencies |-> NoDeps]

ModulesFiles ==
    {[isfile |-> FALSE, content |-> NoModuleInfo]}
        \cup {[isfile |-> TRUE, content |-> m] : m \in ModuleInfos}

GdlIdle == [pc |-> "idle", list |-> <<>>, pos |-> 1, found |-> {}, files |-> <<>>]

Flag(name, arg) == [flag |-> name, arg |-> arg]

BaseFlags ==
    << Flag("--compilation_level", <<>>),
       Flag("--jscomp_error", <<>>),
       Flag("--jscomp_warning", <<>>),
       Flag("--output_wrapper", <<>>) >>

(***************************************************************************)
(* get_dependency_list: the filter over the resolver's output.             *)
(***************************************************************************)
\* Mutant: found.add(line) is missing.
gdl_step_forgetful(st, line) ==
    IF line = <<>> \/ line[1] # "/" \/ line \in st.found
    THEN st
    ELSE [found |-> st.found, files |-> Append(st.files, line)]

\* One iteration of the loop over list.splitlines().
gdl_step(st, line) ==
    IF line = <<>> \/ line[1] # "/" \/ line \in st.found
    THEN st
    ELSE [found |-> st.found \cup {line}, files |-> Append(st.files, line)]

RECURSIVE gdl_loop(_, _)
gdl_loop(st, lines) ==
    IF lines = <<>> THEN st
    ELSE gdl_loop(gdl_step(st, Head(lines)), Tail(lines))

get_dependency_list(list) == gdl_loop([found |-> {}, files |-> <<>>], list).files

(***************************************************************************)
(* compile: the partition loop body and the module flag.                   *)
(***************************************************************************)
\* Mutant: the membership test looks only at the files of the running bundle.
claim_dep_local(st, dep) ==
    IF dep \notin Range(st.added)
    THEN [file_list |-> Append(st.file_list, dep),
          file_count |-> st.file_count + 1,
          added |-> Append(st.added, dep)]
    ELSE st

\* Mutant: a file seen again is taken over by the running bundle.
claim_dep_reclaim(st, dep) ==
    [file_list |-> Append(SelectSeq(st.file_list, LAMBDA f : f # dep), dep),
     file_count |-> st.file_count + 1,
     added |-> Append(st.added, dep)]

\* Mutant: file_count += 1 sits outside the if.
claim_dep_countall(st, dep) ==
    IF dep \notin Range(st.file_list)
    THEN [file_list |-> Append(st.file_list, dep),
          file_count |-> st.file_count + 1,
          added |-> Append(st.added, dep)]
    ELSE [st EXCEPT !.file_count = st.file_count + 1]

\* Mutant: file_list.insert(0, dep) instead of append.
claim_dep_prepend(st, dep) ==
    IF dep \notin Range(st.file_list)
    THEN [file_list |-> <<dep>> \o st.file_list,
          file_count |-> st.file_count + 1,
          added |-> <<dep>> \o st.added]
    ELSE st

\* One iteration of "for dep in deps"; added records the deps that took the
\* branch (the files the bundle newly introduces).
claim_dep(st, dep) ==
    IF dep \notin Range(st.file_list)
    THEN [file_list |-> Append(st.file_list, dep),
          file_count |-> st.file_count + 1,
          added |-> Append(st.added, dep)]
    ELSE st

RECURSIVE claim_deps(_, _)
claim_deps(st, deps) ==
    IF deps = <<>> THEN st
    ELSE claim_deps(claim_dep(st, Head(deps)), Tail(deps))

\* Mutant: the names are joined as declared, suffix and all.
dependencies_part_raw(names) ==
    IF Len(names) # 0
    THEN <<":">> \o join(<<",">>, names)
    ELSE <<>>

\* ':%s' % ','.join([name[:-3] for name in module_info['dependencies'][js_file]])
dependencies_part(names) ==
    IF Len(names) # 0
    THEN <<":">> \o join(<<",">>, [k \in 1..Len(names) |-> DropLast3(names[k])])
    ELSE <<>>

\* '%s:%s%s' % (js_file[:-3], file_counts[i], dependencies)
module_arg(js_file, count, names) ==
    DropLast3(js_file) \o <<":">> \o Str(count) \o dependencies_part(names)

(***************************************************************************)
(* State.                                                                  *)
(***************************************************************************)
VARIABLES
    args_single,     \* '--single' in args
    modules_file,    \* options.modules_file on disk
    pc,              \* position of compile
    is_single,
    module_info,
    i,               \* index of the running loop over compile_order
    file_list,
    file_counts,
    compiler_flags,
    calls,           \* history: seeds of every resolver process started
    closures,        \* history: what get_dependency_list returned, per call
    bundle_files,    \* history: files each bundle newly introduced
    compiler_runs,   \* history: number of "java -jar" processes started
    error,           \* exception that ended compile, or "none"
    gdl              \* a call of get_dependency_list run line by line

vars == <<args_single, modules_file, pc, is_single, module_info, i, file_list,
          file_counts, compiler_flags, calls, closures, bundle_files,
          compiler_runs, error, gdl>>

compile_vars == <<args_single, modules_file, pc, is_single, module_info, i,
                  file_list, file_counts, compiler_flags, calls, closures,
                  bundle_files, compiler_runs, error>>

inputs == <<args_single, modules_file>>

compile_order == module_info.order

Init ==
    /\ args_single \in BOOLEAN
    /\ modules_file \in ModulesFiles
    /\ pc = "start"
    /\ is_single = FALSE
    /\ module_info = NoModuleInfo
    /\ i = 1
    /\ file_list = <<>>
    /\ file_counts = <<>>
    /\ compiler_flags = <<>>
    /\ calls = <<>>
    /\ closures = <<>>
    /\ bundle_files = <<>>
    /\ compiler_runs = 0
    /\ error = "none"
    /\ gdl = GdlIdle

(***************************************************************************)
(* Actions of compile.                                                     *)
(***************************************************************************)
\* Lines 140-165 and, in modular mode, 177-182.
Setup ==
    /\ pc = "start"
    /\ is_single' = (args_single \/ ~modules_file.isfile)
    /\ compiler_flags' = BaseFlags
    /\ IF is_single'
       THEN /\ pc' = "single"
            /\ UNCHANGED module_info
       ELSE /\ pc' = "loop"
            /\ module_info' = modules_file.content
    /\ i' = 1
    /\ file_list' = <<>>
    /\ file_counts' = <<>>
    /\ UNCHANGED <<inputs, gdl, calls, closures, bundle_files, compiler_runs, error>>

\* Line 169: the resolver process is started over all source files.
SingleCall ==
    /\ pc = "single"
    /\ calls' = Append(calls, js_files)
    /\ pc' = "single_resolving"
    /\ UNCHANGED <<inputs, gdl, is_single, module_info, i, file_list, file_counts,
                   compiler_flags, closures, bundle_files, compiler_runs, error>>

\* Lines 169-174: the resolver exited with status 0.
SingleReturn ==
    /\ pc = "single_resolving"
    /\ \E list \in ResolverOutputs :
         LET deps == get_dependency_list(list) IN
         /\ closures' = Append(closures, deps)
         /\ file_list' = deps
         /\ compiler_flags' = compiler_flags \o
                << Flag("--js", deps),
                   Flag("--js_output_file", <<>>),
                   Flag("--define", <<>>) >>
    /\ pc' = "run"
    /\ UNCHANGED <<inputs, gdl, is_single, module_info, i, file_counts, calls,
                   bundle_files, compiler_runs, error>>

\* Mutant: the loop stops one bundle early.
LoopDoneEarly == i >= Len(compile_order)

\* for js_file in compile_order
LoopDone == i > Len(compile_order)

\* Lines 183-185: the resolver process is started for bundle i.
BundleCall ==
    /\ pc = "loop"
    /\ ~LoopDone
    /\ calls' = Append(calls, <<compile_order[i]>>)
    /\ pc' = "resolving"
    /\ UNCHANGED <<inputs, gdl, is_single, module_info, i, file_list, file_counts,
                   compiler_flags, closures, bundle_files, compiler_runs, error>>

\* Lines 184-191: the resolver exited with status 0.
BundleReturn ==
    /\ pc = "resolving"
    /\ \E list \in ResolverOutputs :
         LET deps == get_dependency_list(list)
             st == claim_deps([file_list |-> file_list, file_count |-> 0,
                               added |-> <<>>], deps)
         IN
         /\ closures' = Append(closures, deps)
         /\ file_list' = st.file_list
         /\ file_counts' = Append(file_counts, st.file_count)
         /\ bundle_files' = Append(bundle_files, st.added)
    /\ i' = i + 1
    /\ pc' = "loop"
    /\ UNCHANGED <<inputs, gdl, is_single, module_info, compiler_flags, calls,
                   compiler_runs, error>>

\* Mutant: sh(..., ignore_error=True): the failed resolver's output is taken
\* as an empty list and compile goes on.
ResolverFailIgnored ==
    /\ pc \in {"resolving", "single_resolving"}
    /\ error' = "ResolverFailure"
    /\ closures' = Append(closures, <<>>)
    /\ IF pc = "resolving"
       THEN /\ file_counts' = Append(file_counts, 0)
            /\ bundle_files' = Append(bundle_files, <<>>)
            /\ i' = i + 1
            /\ pc' = "loop"
            /\ UNCHANGED compiler_flags
       ELSE /\ compiler_flags' = compiler_flags \o
                   << Flag("--js", <<>>),
                      Flag("--js_output_file", <<>>),
                      Flag("--define", <<>>) >>
            /\ pc' = "run"
            /\ UNCHANGED <<file_counts, bundle_files, i>>
    /\ UNCHANGED <<inputs, gdl, is_single, module_info, file_list, calls,
                   compiler_runs>>

\* Lines 116-122: sh raises BuildFailure when the resolver exits non-zero;
\* neither get_dependency_list nor compile catches it.
ResolverFail ==
    /\ pc \in {"resolving", "single_resolving"}
    /\ pc' = "aborted"
    /\ error' = "ResolverFailure"
    /\ UNCHANGED <<inputs, gdl, is_single, module_info, i, file_list, file_counts,
                   compiler_flags, calls, closures, bundle_files, compiler_runs>>

\* Lines 193-194.
PlanFiles ==
    /\ pc = "loop"
    /\ LoopDone
    /\ compiler_flags' = compiler_flags \o
           << Flag("--module_output_path_prefix", <<>>),
              Flag("--js", file_list) >>
    /\ i' = 1
    /\ pc' = "modules"
    /\ UNCHANGED <<inputs, gdl, is_single, module_info, file_list, file_counts,
                   calls, closures, bundle_files, compiler_runs, error>>

\* Mutant: the descriptor carries the size of the bundle's whole closure.
PlanModuleRawCount ==
    /\ pc = "modules"
    /\ ~LoopDone
    /\ compile_order[i] \in DOMAIN module_info.dependencies
    /\ compiler_flags' = Append(compiler_flags,
           Flag("--module",
                module_arg(compile_order[i], Len(closures[i]),
                           module_info.dependencies[compile_order[i]])))
    /\ i' = i + 1
    /\ UNCHANGED <<inputs, gdl, pc, is_single, module_info, file_list,
                   file_counts, calls, closures, bundle_files, compiler_runs,
                   error>>

\* Lines 195-204: one iteration of the enumerate loop.
PlanModule ==
    /\ pc = "modules"
    /\ ~LoopDone
    /\ compile_order[i] \in DOMAIN module_info.dependencies
    /\ compiler_flags' = Append(compiler_flags,
           Flag("--module",
                module_arg(compile_order[i], file_counts[i],
                           module_info.dependencies[compile_order[i]])))
    /\ i' = i + 1
    /\ UNCHANGED <<inputs, gdl, pc, is_single, module_info, file_list, file_counts,
                   calls, closures, bundle_files, compiler_runs, error>>

\* Line 197: module_info['dependencies'][js_file] raises KeyError.
PlanKeyError ==
    /\ pc = "modules"
    /\ ~LoopDone
    /\ compile_order[i] \notin DOMAIN module_info.dependencies
    /\ pc' = "aborted"
    /\ error' = "KeyError"
    /\ UNCHANGED <<inputs, gdl, is_single, module_info, i, file_list, file_counts,
                   compiler_flags, calls, closures, bundle_files, compiler_runs>>

\* Lines 207-210: the compiler process is started.
RunCompiler ==
    /\ \/ pc = "run"
       \/ pc = "modules" /\ LoopDone
    /\ compiler_runs' = compiler_runs + 1
    /\ pc' = "compiling"
    /\ UNCHANGED <<inputs, gdl, is_single, module_info, i, file_list, file_counts,
                   compiler_flags, calls, closures, bundle_files, error>>

\* Lines 207-212: the compiler exited with status 0; size() reports.
CompilerDone ==
    /\ pc = "compiling"
    /\ pc' = "done"
    /\ UNCHANGED <<inputs, gdl, is_single, module_info, i, file_list, file_counts,
                   compiler_flags, calls, closures, bundle_files,
                   compiler_runs, error>>

\* Lines 207-210: sh raises BuildFailure when the compiler exits non-zero.
CompilerFail ==
    /\ pc = "compiling"
    /\ pc' = "aborted"
    /\ error' = "CompilerFailure"
    /\ UNCHANGED <<inputs, gdl, is_single, module_info, i, file_list, file_counts,
                   compiler_flags, calls, closures, bundle_files, compiler_runs>>

Next ==
    \/ Setup
    \/ SingleCall
    \/ SingleReturn
    \/ BundleCall
    \/ BundleReturn
    \/ ResolverFail
    \/ PlanFiles
    \/ PlanModule
    \/ PlanKeyError
    \/ RunCompiler
    \/ CompilerDone
    \/ CompilerFail

Spec == Init /\ [][Next]_vars

(***************************************************************************)
(* get_dependency_list on its own, one line of the resolver's output per   *)
(* step, over every bounded output.                                        *)
(***************************************************************************)
\* Lines the resolver may print: paths, a repeated path, a blank line, a
\* diagnostic and a relative path.
RelativeLine == <<"x", "/", "1">>

AnyLines == {F1, F2, F3, BlankLine, NoiseLine, RelativeLine}

AnyOutputs == BoundedSeq(AnyLines, MaxLines)

InitResolver ==
    /\ args_single = FALSE
    /\ modules_file = [isfile |-> FALSE, content |-> NoModuleInfo]
    /\ pc = "start"
    /\ is_single = FALSE
    /\ module_info = NoModuleInfo
    /\ i = 1
    /\ file_list = <<>>
    /\ file_counts = <<>>
    /\ compiler_flags = <<>>
    /\ calls = <<>>
    /\ closures = <<>>
    /\ bundle_files = <<>>
    /\ compiler_runs = 0
    /\ error = "none"
    /\ \E list \in AnyOutputs :
         gdl = [pc |-> "loop", list |-> list, pos |-> 1, found |-> {}, files |-> <<>>]

\* Lines 127-132: one line of list.splitlines().
GdlLine ==
    /\ gdl.pc = "loop"
    /\ gdl.pos <= Len(gdl.list)
    /\ LET st == gdl_step([found |-> gdl.found, files |-> gdl.files],
                          gdl.list[gdl.pos])
       IN gdl' = [gdl EXCEPT !.pos = gdl.pos + 1, !.found = st.found,
                             !.files = st.files]
    /\ UNCHANGED compile_vars

\* Line 134.
GdlReturn ==
    /\ gdl.pc = "loop"
    /\ gdl.pos > Len(gdl.list)
    /\ gdl' = [gdl EXCEPT !.pc = "returned"]
    /\ UNCHANGED compile_vars

NextResolver == GdlLine \/ GdlReturn

SpecResolver == InitResolver /\ [][NextResolver]_vars

(***************************************************************************)
(* Vocabulary of the properties.                                           *)
(***************************************************************************)
RECURSIVE Concat(_)
Concat(seqs) == IF seqs = <<>> THEN <<>> ELSE Head(seqs) \o Concat(Tail(seqs))

RECURSIVE SumTo(_, _)
SumTo(counts, k) == IF k = 0 THEN 0 ELSE SumTo(counts, k - 1) + counts[k]

RECURSIVE IsSubseq(_, _)
IsSubseq(a, b) ==
    IF a = <<>> THEN TRUE
    ELSE IF b = <<>> THEN FALSE
    ELSE IF Head(a) = Head(b) THEN IsSubseq(Tail(a), Tail(b))
    ELSE IsSubseq(a, Tail(b))

\* The k-th smallest element of a set of indices.
NthOf(S, n) == CHOOSE k \in S : Cardinality({j \in S : j <= k}) = n

\* The elements of s at the indices in S, in the order of s.
Pick(s, S) == [n \in 1..Cardinality(S) |-> s[NthOf(S, n)]]

\* s without the later occurrences of its elements.
FirstOccurrences(s) ==
    Pick(s, {k \in 1..Len(s) : \A j \in 1..(k - 1) : s[j] # s[k]})

\* The bundles (positions in the declared order) resolved so far.
Resolved == 1..Len(closures)

\* Files in the closure of one of the first k bundles.
ClosuresUpTo(k) == UNION {Range(closures[j]) : j \in 1..k}

\* The bundles whose count covers position p of the global file list.
OwnersOf(p) ==
    {k \in 1..Len(file_counts) :
        SumTo(file_counts, k - 1) < p /\ p <= SumTo(file_counts, k)}

\* The files the counts give to bundle k.
Slice(k) ==
    SubSeq(file_list, SumTo(file_counts, k - 1) + 1, SumTo(file_counts, k))

\* The partition loop has run to its end.
Partitioned ==
    /\ ~is_single
    /\ \/ pc \in {"modules", "compiling", "done"}
       \/ pc = "loop" /\ LoopDone
       \/ error \in {"KeyError", "CompilerFailure"}

SharedFile(f) ==
    \E j, k \in Resolved : j < k /\ f \in Range(closures[j]) \cap Range(closures[k])

(***************************************************************************)
(* C1: in modular mode the global file list holds each path at most once,  *)
(* it is the concatenation, in declared order, of the files each bundle    *)
(* newly introduced, and it holds exactly the files of the closures.       *)
(***************************************************************************)
C1_NoDuplication ==
    ~is_single =>
        /\ IsInjective(file_list)
        /\ file_list = Concat(bundle_files)
        /\ Range(file_list) = ClosuresUpTo(Len(closures))

C1_Witness ==
    /\ Partitioned
    /\ pc = "done"
    /\ Len(compile_order) = 3
    /\ Len(file_list) >= 3
    /\ \E f \in Range(file_list) : SharedFile(f)

(***************************************************************************)
(* C2: a file is owned by (counted in) the earliest declared bundle whose  *)
(* closure holds it; ownership, counts and global list are functions of    *)
(* the declared order and the closures alone, so a second run on the same  *)
(* inputs yields the same.                                                 *)
(***************************************************************************)
C2_FirstClaimOwnership ==
    ~is_single =>
        /\ \A p \in 1..Len(file_list) : \A k \in Resolved :
              k \in OwnersOf(p) <=>
                  /\ file_list[p] \in Range(closures[k])
                  /\ file_list[p] \notin ClosuresUpTo(k - 1)
        /\ file_list = FirstOccurrences(Concat(closures))
        /\ \A k \in Resolved :
              /\ k <= Len(file_counts)
              /\ file_counts[k] =
                     Cardinality(Range(closures[k]) \ ClosuresUpTo(k - 1))

C2_Witness ==
    /\ Partitioned
    /\ pc = "done"
    /\ Len(compile_order) = 3
    /\ \E f \in Range(file_list) :
          /\ f \notin Range(closures[1])
          /\ f \in Range(closures[2]) \cap Range(closures[3])
          /\ file_counts[3] > 0

(***************************************************************************)
(* C3: there is one count per declared bundle, the counts sum to the       *)
(* length of the global file list, and consuming file_counts[k] files for  *)
(* bundle k, in declared order, yields the files bundle k newly            *)
(* introduced, in the same sequence.                                       *)
(***************************************************************************)
C3_CountsReconstruct ==
    ~is_single =>
        /\ Len(file_counts) = Len(closures)
        /\ Partitioned => Len(file_counts) = Len(compile_order)
        /\ SumTo(file_counts, Len(file_counts)) = Len(file_list)
        /\ \A k \in 1..Len(file_counts) : Slice(k) = bundle_files[k]

C3_Witness ==
    /\ Partitioned
    /\ pc = "done"
    /\ Len(compile_order) = 3
    /\ Len(file_list) >= 3
    /\ \E k \in 1..3 : file_counts[k] = 0 /\ closures[k] # <<>>

(***************************************************************************)
(* C4: the files a bundle newly introduces are a subsequence of the        *)
(* closure the resolver returned for it, and the files dropped are the     *)
(* ones an earlier bundle introduced.                                      *)
(***************************************************************************)
C4_LoadOrderPreserved ==
    ~is_single =>
        \A k \in Resolved :
            /\ k <= Len(bundle_files)
            /\ IsSubseq(bundle_files[k], closures[k])
            /\ Range(closures[k]) \ Range(bundle_files[k]) =
                   Range(closures[k]) \cap
                       UNION {Range(bundle_files[j]) : j \in 1..(k - 1)}

C4_Witness ==
    /\ Partitioned
    /\ pc = "done"
    /\ \E k \in 2..Len(bundle_files) :
          /\ Len(bundle_files[k]) >= 2
          /\ Len(closures[k]) > Len(bundle_files[k])

FlagNames == {compiler_flags[k].flag : k \in 1..Len(compiler_flags)}

(***************************************************************************)
(* C5: once the resolver has failed for a bundle, compile is aborted: the  *)
(* flag list holds no --js and no --module flag, and the compiler process  *)
(* is never started, whatever earlier bundles had accumulated.             *)
(***************************************************************************)
C5_FailFast ==
    error = "ResolverFailure" =>
        /\ pc = "aborted"
        /\ compiler_runs = 0
        /\ FlagNames \cap {"--js", "--module"} = {}

C5_Witness ==
    /\ error = "ResolverFailure"
    /\ ~is_single
    /\ Len(calls) = 3
    /\ Len(file_counts) = 2
    /\ Len(file_list) >= 2

(***************************************************************************)
(* C6: when the resolver exits with status 0 and prints no usable path     *)
(* line for a non-empty seed set, get_dependency_list raises an error and  *)
(* compile aborts (no empty closure is ever taken as a result).            *)
(***************************************************************************)
C6_EmptyOutputIsAnError ==
    \A k \in Resolved :
        (calls[k] # <<>> /\ closures[k] = <<>>) =>
            pc = "aborted" /\ error = "ResolverFailure"

(***************************************************************************)
(* C10: the resolver is started once per declared bundle, in declared      *)
(* order, each call having returned and been partitioned before the next   *)
(* starts; in unified mode it is started once, over all source files; the  *)
(* compiler is started at most once and only after the last resolver call  *)
(* has returned.                                                           *)
(***************************************************************************)
C10_SequentialCalls ==
    /\ compiler_runs <= 1
    /\ Len(closures) = (IF pc \in {"resolving", "single_resolving"}
                           \/ error = "ResolverFailure"
                        THEN Len(calls) - 1 ELSE Len(calls))
    /\ ~is_single =>
          /\ Len(calls) <= Len(compile_order)
          /\ \A k \in 1..Len(calls) : calls[k] = <<compile_order[k]>>
          /\ Len(file_counts) = Len(closures)
          /\ (Partitioned \/ compiler_runs = 1) =>
                 Len(closures) = Len(compile_order)
    /\ is_single =>
          /\ calls \in {<<>>, <<js_files>>}
          /\ (pc \in {"run", "compiling", "done"} \/ compiler_runs = 1) =>
                 Len(calls) = 1 /\ Len(closures) = 1

C10_Witness ==
    /\ ~is_single
    /\ pc = "compiling"
    /\ compiler_runs = 1
    /\ Len(calls) = 3
    /\ calls[1] # calls[3]

(***************************************************************************)
(* Reading a module descriptor back: name:count[:dep1,dep2,...].           *)
(***************************************************************************)
\* s.split(sep)
RECURSIVE Split(_, _)
Split(s, sep) ==
    LET at == {k \in 1..Len(s) : s[k] = sep} IN
    IF at = {} THEN <<s>>
    ELSE LET k == CHOOSE m \in at : \A n \in at : m <= n
         IN <<SubSeq(s, 1, k - 1)>> \o Split(SubSeq(s, k + 1, Len(s)), sep)

DigitValue(c) ==
    IF \E d \in 0..9 : Digits[d + 1] = c
    THEN CHOOSE d \in 0..9 : Digits[d + 1] = c
    ELSE -1

\* The number a string of decimal digits denotes; -1 when it is none.
RECURSIVE ParseNat(_)
ParseNat(s) ==
    IF s = <<>> \/ DigitValue(s[Len(s)]) < 0 THEN -1
    ELSE IF Len(s) = 1 THEN DigitValue(s[1])
    ELSE LET hi == ParseNat(SubSeq(s, 1, Len(s) - 1))
         IN IF hi < 0 THEN -1 ELSE 10 * hi + DigitValue(s[Len(s)])

ModuleFlags == SelectSeq(compiler_flags, LAMBDA f : f.flag = "--module")

\* The descriptors emitted so far, in the order of the flag list.
ModuleArgs == [k \in 1..Len(ModuleFlags) |-> ModuleFlags[k].arg]

DescName(arg) == Split(arg, ":")[1]

DescDeps(arg) ==
    LET f == Split(arg, ":") IN
    IF Len(f) < 3 THEN <<>> ELSE Split(f[3], ",")

\* The declared dependsOn of the k-th declared bundle.
DependsOn(k) == module_info.dependencies[compile_order[k]]

\* Every bundle is declared after all the bundles its dependsOn names.
WellOrdered ==
    \A k \in 1..Len(compile_order) :
        compile_order[k] \in DOMAIN module_info.dependencies =>
            \A d \in Range(DependsOn(k)) :
                \E j \in 1..(k - 1) : compile_order[j] = d

\* The dependency names of every emitted descriptor are names of bundles
\* declared earlier, whose descriptors are already emitted.
DepsAlreadyEmitted ==
    \A k \in 1..Len(ModuleArgs) :
        \A n \in Range(DescDeps(ModuleArgs[k])) :
            \E j \in 1..(k - 1) :
                /\ n \o JsSuffix = compile_order[j]
                /\ DescName(ModuleArgs[j]) = n

(***************************************************************************)
(* C7 as stated: every dependency name of an emitted descriptor is the     *)
(* name of an earlier declared, already emitted bundle, and a dependsOn    *)
(* naming an absent or later declared bundle aborts the build before the   *)
(* compiler is started.                                                    *)
(***************************************************************************)
C7_DepsValidated ==
    /\ DepsAlreadyEmitted
    /\ ~WellOrdered => compiler_runs = 0

(***************************************************************************)
(* C7 amended: the dependency names of an emitted descriptor are the       *)
(* bundle's declared dependsOn names, suffix removed, in declared order;   *)
(* they name earlier declared, already emitted bundles whenever every      *)
(* bundle is declared after the bundles in its dependsOn. compile does     *)
(* not check this (the witness: a run that starts the compiler with a      *)
(* dependency on a bundle not declared earlier).                           *)
(***************************************************************************)
C7_DepsAsDeclared ==
    /\ \A k \in 1..Len(ModuleArgs) :
          LET d == DescDeps(ModuleArgs[k]) IN
          [j \in 1..Len(d) |-> d[j] \o JsSuffix] = DependsOn(k)
    /\ WellOrdered => DepsAlreadyEmitted

C7_Witness ==
    /\ ~is_single
    /\ ~WellOrdered
    /\ compiler_runs = 1
    /\ pc = "done"
    /\ Len(ModuleArgs) = 3
    /\ \E k \in 1..3 : Len(DescDeps(ModuleArgs[k])) = 2

\* The number of descriptors compile has emitted at this point.
Emitted ==
    IF is_single THEN 0
    ELSE IF pc = "modules" \/ error = "KeyError" THEN i - 1
    ELSE IF pc \in {"compiling", "done"} \/ error = "CompilerFailure"
         THEN Len(compile_order)
    ELSE 0

ScenarioRun ==
    /\ ~is_single
    /\ pc \in {"compiling", "done"}
    /\ compile_order = <<NameOf(1), NameOf(2), NameOf(3)>>
    /\ DependsOn(1) = <<>>
    /\ DependsOn(2) = <<NameOf(1)>>
    /\ DependsOn(3) = <<NameOf(1), NameOf(2)>>
    /\ closures = << <<F1, F2>>, <<F1, F2, F3>>, <<F1, F4>> >>

(***************************************************************************)
(* C8: compile emits one descriptor per declared bundle, in declared       *)
(* order: name:count[:deps], the name being the entry file without .js,    *)
(* the count the number of files the bundle newly introduced, the deps     *)
(* the declared dependsOn names joined by commas, left out together with   *)
(* their colon exactly when dependsOn is empty. Unified mode emits none.   *)
(* The scenario A [f1,f2], B(A) [f1,f2,f3], C(A,B) [f1,f4] gives the       *)
(* global list [f1,f2,f3,f4] and A:2, B:1:A, C:1:A,B.                      *)
(***************************************************************************)
C8_Descriptors ==
    /\ Len(ModuleArgs) = Emitted
    /\ \A k \in 1..Len(ModuleArgs) :
          LET f == Split(ModuleArgs[k], ":")
              d == DescDeps(ModuleArgs[k])
          IN
          /\ Len(f) = (IF DependsOn(k) = <<>> THEN 2 ELSE 3)
          /\ f[1] \o JsSuffix = compile_order[k]
          /\ ParseNat(f[2]) =
                 Cardinality(Range(closures[k]) \ ClosuresUpTo(k - 1))
          /\ [j \in 1..Len(d) |-> d[j] \o JsSuffix] = DependsOn(k)
    /\ ScenarioRun =>
          /\ file_list = <<F1, F2, F3, F4>>
          /\ ModuleArgs = << <<"a", ":", "2">>,
                             <<"b", ":", "1", ":", "a">>,
                             <<"c", ":", "1", ":", "a", ",", "b">> >>

C8_Witness ==
    /\ ScenarioRun
    /\ pc = "done"
    /\ Len(ModuleArgs) = 3

IsPathLine(line) == line # <<>> /\ line[1] = "/"

\* The first occurrences of the path lines among the first n lines.
PathLinesOf(list, n) ==
    Pick(list, {k \in 1..n :
                  /\ IsPathLine(list[k])
                  /\ \A j \in 1..(k - 1) : list[j] # list[k]})

(***************************************************************************)
(* C9: get_dependency_list returns the lines that are non-empty and begin  *)
(* with '/', each once, in the order of their first occurrences; every     *)
(* other line is discarded.                                                *)
(***************************************************************************)
C9_PathLinesOnce ==
    /\ get_dependency_list(gdl.list) = PathLinesOf(gdl.list, Len(gdl.list))
    /\ gdl.pc \in {"loop", "returned"} =>
          /\ gdl.files = PathLinesOf(gdl.list, gdl.pos - 1)
          /\ IsInjective(gdl.files)
          /\ Range(gdl.files) =
                 {gdl.list[k] : k \in {j \in 1..(gdl.pos - 1) : IsPathLine(gdl.list[j])}}
    /\ gdl.pc = "returned" => gdl.pos = Len(gdl.list) + 1

C9_Witness ==
    /\ gdl.pc = "returned"
    /\ Len(gdl.list) = 3
    /\ IsPathLine(gdl.list[1])
    /\ ~IsPathLine(gdl.list[2])
    /\ gdl.list[3] = gdl.list[1]
    /\ Len(gdl.files) = 1

====
